---- MODULE Spec2Model ----
(***************************************************************************)
(* Model of r1cs-bellman (src/src/lib.rs): WrappedCircuit::synthesize      *)
(* translates an r1cs Gadget into calls on a bellman ConstraintSystem.     *)
(* One behaviour is the flow of the crate's tests: a parameter-generation  *)
(* pass with an empty witness map, then a proving pass with the witness    *)
(* map, each against a fresh constraint system.                            *)
(***************************************************************************)
EXTENDS Integers, Sequences, FiniteSets, TLC

\* ---------------------------------------------------------------- bounds
\* Scaled-down order of the scalar field shared by Element<F> and E::Fr.
Modulus == 5
\* Scaled-down limb base (2^64 in convert_bls12_381).
LimbBase == 2
\* Witness values of the input witness map are drawn from 0..MaxValue.
MaxValue == 1
\* Longest constraint list.
MaxConstraints == 2
\* Largest capacity of a backend that runs out of variables.
MaxAllocLimit == 4

\* ------------------------------------------------------------- constants
\* Number of u64 chunks convert_bls12_381 splits an element into.
NumChunks == 4
\* The value E::Fr::from_str("0") parses to.
FrZero == 0

ValueSet == 0..MaxValue

\* ------------------------------------------------------------ field, Fr
FrAdd(x, y) == (x + y) % Modulus
FrMul(x, y) == (x * y) % Modulus

RECURSIVE Pow(_, _)
Pow(b, e) == IF e = 0 THEN 1 ELSE b * Pow(b, e - 1)

\* n.mod_floor(&u64_size), (n >> 64).mod_floor(&u64_size), ...
Chunks(n) == [j \in 1..NumChunks |-> (n \div Pow(LimbBase, j - 1)) % LimbBase]

RECURSIVE FromRaw(_, _)
\* Scalar::from_raw(chunks): the little-endian limbs as a field element.
FromRaw(chunks, j) ==
    IF j > NumChunks THEN 0
    ELSE FrAdd((chunks[j] * Pow(LimbBase, j - 1)) % Modulus, FromRaw(chunks, j + 1))

\* A conversion that keeps only the lowest chunk of the element.
convert_field_LowChunk(n) == Chunks(n)[1] % Modulus

\* The injected convert_field; the crate's instance is convert_bls12_381.
convert_field(n) == FromRaw(Chunks(n), 1)

\* -------------------------------------------------------- r1cs data model
Range(s) == {s[j] : j \in DOMAIN s}

RECURSIVE SetToSortedSeq(_)
SetToSortedSeq(S) ==
    IF S = {} THEN <<>>
    ELSE LET m == CHOOSE x \in S : \A y \in S : x <= y
         IN <<m>> \o SetToSortedSeq(S \ {m})

\* exp.coefficients(): the (wire, coeff) pairs, iterated in wire order.
coefficients(exp) ==
    LET ws == SetToSortedSeq(DOMAIN exp)
    IN [j \in 1..Len(ws) |-> <<ws[j], exp[ws[j]]>>]

\* The empty Expression.
NoTerms == [w \in {} |-> 0]

\* Sample constraints in the manner of tests::build_circuit, over the wires
\* 0 (Wire::ONE of r1cs), 1 and 2:
\*   w1 * w2 = w0               three distinct wires, w0 the constant term
\*   (w1 + 2 w2) * w1 = 0       two terms, a repeated wire, an empty expression
\*   (w0 + w1) * w2 = 2 w2      a constant term next to a wire
SampleConstraints ==
    << [a |-> (1 :> 1),            b |-> (2 :> 1), c |-> (0 :> 1)],
       [a |-> (1 :> 1) @@ (2 :> 2), b |-> (1 :> 1), c |-> NoTerms],
       [a |-> (0 :> 1) @@ (1 :> 1), b |-> (2 :> 1), c |-> (2 :> 2)] >>

ConstraintSet == Range(SampleConstraints)

Gadgets == UNION {[1..n -> ConstraintSet] : n \in 0..MaxConstraints}

TermsOf(con) == Cardinality(DOMAIN con.a) + Cardinality(DOMAIN con.b)
                  + Cardinality(DOMAIN con.c)

RECURSIVE TotalTerms(_)
TotalTerms(g) == IF g = <<>> THEN 0 ELSE TermsOf(Head(g)) + TotalTerms(Tail(g))

\* The wires a gadget refers to.
WiresOf(g) == UNION {DOMAIN g[n].a \cup DOMAIN g[n].b \cup DOMAIN g[n].c :
                       n \in 1..Len(g)}

\* Witness maps and public-input vectors over the wires of the gadget.
WitnessMaps(g) == UNION {[S -> ValueSet] : S \in SUBSET WiresOf(g)}

PublicVecs(g) == {SetToSortedSeq(S) : S \in SUBSET WiresOf(g)}

\* The empty BTreeMap the tests hand to the parameter-generation pass.
empty_map == [w \in {} |-> 0]

\* ----------------------------------------------------------------- state
VARIABLES
    gadget,           \* WrappedCircuit.gadget.constraints
    witness_map,      \* WrappedCircuit.witness_map of the running pass
    public_inputs,    \* WrappedCircuit.public_inputs (Vec<Wire>)
    alloc_limit,      \* whether the backend can run out of variables, and when
    pass,             \* 1: parameter generation, 2: proving
    pc,               \* position in synthesize
    public_set,       \* the HashSet built from public_inputs
    i,                \* the loop counter of synthesize
    part,             \* which of a, b, c convert_lc is translating
    k,                \* pairs of the current expression already visited
    sum,              \* convert_lc's running sum
    a_lc, b_lc, c_lc, \* the translated expressions of constraint i
    cs_inputs,        \* backend: values of the public variables
    cs_aux,           \* backend: values of the private variables
    cs_constraints,   \* backend: the enforced constraints
    calls,            \* log of the backend calls of the current pass
    setup_calls,      \* log of the backend calls of pass 1
    result            \* how synthesize ended: "none", "Ok", "panic"

vars == <<gadget, witness_map, public_inputs, alloc_limit, pass, pc, public_set,
          i, part, k, sum, a_lc, b_lc, c_lc, cs_inputs, cs_aux, cs_constraints,
          calls, setup_calls, result>>

inputVars == <<gadget, public_inputs, alloc_limit>>

\* LinearCombination::zero()
LcZero == <<>>

\* sum = (fr, var): the running sum is overwritten instead of extended.
LcAdd_Overwrite(lc, fr, var) == <<<<fr, var>>>>

\* sum + (fr, var)
LcAdd(lc, fr, var) == Append(lc, <<fr, var>>)

\* ------------------------------------------------------------ the backend
\* A fresh constraint system: only the ONE input is allocated.
FreshInputs == <<1>>

CsOne == [kind |-> "Input", idx |-> 0]

AllocCount == (Len(cs_inputs) - 1) + Len(cs_aux)

\* alloc / alloc_input return Err when the backend is out of variables.
AllocFails == alloc_limit.fallible /\ AllocCount >= alloc_limit.capacity

ValueOf(var, inputs, aux) ==
    IF var.kind = "Input" THEN inputs[var.idx + 1] ELSE aux[var.idx + 1]

RECURSIVE EvalLc(_, _, _)
EvalLc(lc, inputs, aux) ==
    IF lc = <<>> THEN 0
    ELSE FrAdd(FrMul(Head(lc)[1], ValueOf(Head(lc)[2], inputs, aux)),
               EvalLc(Tail(lc), inputs, aux))

\* The backend's satisfaction check over its recorded constraints.
is_satisfied ==
    \A n \in 1..Len(cs_constraints) :
        FrMul(EvalLc(cs_constraints[n].a, cs_inputs, cs_aux),
              EvalLc(cs_constraints[n].b, cs_inputs, cs_aux))
          = EvalLc(cs_constraints[n].c, cs_inputs, cs_aux)

\* ------------------------------------------------------------ convert_wire
\* A resolver whose default for an unassigned wire is one.
WireValue_DefaultOne(wire, wmap) == IF wire \in DOMAIN wmap THEN wmap[wire] ELSE 1

\* witness_map.get(&wire_index): Some(wtns) or None, then the value closure.
WireValue(wire, wmap) == IF wire \in DOMAIN wmap THEN wmap[wire] ELSE FrZero

\* A resolver with the public and private branches swapped.
IsPublic_Swapped(wire, pset) == wire \notin pset

\* A resolver that makes a wire public only when it has a witness value.
IsPublic_WitnessGated(wire, pset) == wire \in pset /\ wire \in DOMAIN witness_map

\* public_inputs.contains(&wire)
IsPublic(wire, pset) == wire \in pset

\* A resolver that maps wire 0 to the backend's built-in ONE variable.
NewVariable_ConstOne(wire, pub) ==
    IF wire = 0 THEN CsOne
    ELSE IF pub THEN [kind |-> "Input", idx |-> Len(cs_inputs)]
    ELSE [kind |-> "Aux", idx |-> Len(cs_aux)]

\* The Variable convert_wire returns: the handle cs.alloc_input / cs.alloc
\* hands out, the next free public or private position.
NewVariable(wire, pub) ==
    IF pub THEN [kind |-> "Input", idx |-> Len(cs_inputs)]
    ELSE [kind |-> "Aux", idx |-> Len(cs_aux)]

\* A label computed after the counter was incremented.
EnforceLabel_OffByOne(n) == <<"generated by r1cs-bellman at ", n + 1>>

\* format!("generated by r1cs-bellman at {}", i)
EnforceLabel(n) == <<"generated by r1cs-bellman at ", n>>

\* ------------------------------------------------------------- synthesize
CurrentExp == IF part = "a" THEN gadget[i + 1].a
              ELSE IF part = "b" THEN gadget[i + 1].b
              ELSE gadget[i + 1].c

Init ==
    /\ gadget \in Gadgets
    /\ witness_map = empty_map
    /\ public_inputs \in PublicVecs(gadget)
    /\ alloc_limit = [fallible |-> FALSE, capacity |-> 0]
    /\ pass = 1
    /\ pc = "start"
    /\ public_set = {}
    /\ i = 0
    /\ part = "a"
    /\ k = 0
    /\ sum = LcZero
    /\ a_lc = LcZero /\ b_lc = LcZero /\ c_lc = LcZero
    /\ cs_inputs = FreshInputs
    /\ cs_aux = <<>>
    /\ cs_constraints = <<>>
    /\ calls = <<>>
    /\ setup_calls = <<>>
    /\ result = "none"

\* The head of `for constraint in gadget.constraints` at counter n: either
\* the first convert_lc of the next constraint starts, or Ok(()) is returned.
LoopHead(n) ==
    IF n < Len(gadget)
    THEN /\ pc' = "convert" /\ part' = "a" /\ k' = 0 /\ sum' = LcZero
         /\ result' = result
    ELSE /\ pc' = "done" /\ result' = "Ok"
         /\ UNCHANGED <<part, k, sum>>

\* synthesize is entered: self is destructured, the HashSet is built, i = 0.
SynthesizeEnter ==
    /\ pc = "start"
    /\ public_set' = Range(public_inputs)
    /\ i' = 0
    /\ LoopHead(0)
    /\ UNCHANGED <<inputVars, witness_map, pass, a_lc, b_lc, c_lc, cs_inputs, cs_aux,
                   cs_constraints, calls, setup_calls>>

\* One iteration of convert_lc's loop: convert_field, convert_wire (one
\* backend allocation that succeeds), sum = sum + (fr, var).
ConvertTerm ==
    /\ pc = "convert"
    /\ k < Len(coefficients(CurrentExp))
    /\ ~AllocFails
    /\ LET pair == coefficients(CurrentExp)[k + 1]
           wire == pair[1]
           fr == convert_field(pair[2])
           val == WireValue(wire, witness_map)
           pub == IsPublic(wire, public_set)
           var == NewVariable(wire, pub)
       IN /\ cs_inputs' = IF pub THEN Append(cs_inputs, val) ELSE cs_inputs
          /\ cs_aux' = IF pub THEN cs_aux ELSE Append(cs_aux, val)
          /\ calls' = Append(calls,
                [op |-> IF pub THEN "alloc_input" ELSE "alloc",
                 annotation |-> IF pub THEN "public input" ELSE "private input",
                 value |-> [ok |-> TRUE, val |-> val], ret |-> "Ok",
                 var |-> var, wire |-> wire, at |-> <<i, part, k>>])
          /\ sum' = LcAdd(sum, fr, var)
    /\ k' = k + 1
    /\ UNCHANGED <<inputVars, witness_map, pass, pc, public_set, i, part, a_lc, b_lc, c_lc,
                   cs_constraints, setup_calls, result>>

\* The allocation of convert_wire returns Err and .unwrap() panics.
ConvertTermPanic ==
    /\ pc = "convert"
    /\ k < Len(coefficients(CurrentExp))
    /\ AllocFails
    /\ pc' = "panicked"
    /\ result' = "panic"
    /\ calls' = Append(calls,
          [op |-> IF IsPublic(coefficients(CurrentExp)[k + 1][1], public_set)
                  THEN "alloc_input" ELSE "alloc",
           ret |-> "Err", wire |-> coefficients(CurrentExp)[k + 1][1],
           at |-> <<i, part, k>>])
    /\ UNCHANGED <<inputVars, witness_map, pass, public_set, i, part, k, sum, a_lc, b_lc, c_lc,
                   cs_inputs, cs_aux, cs_constraints, setup_calls>>

\* convert_lc returns sum; the next convert_lc starts or enforce is reached.
ConvertReturn ==
    /\ pc = "convert"
    /\ k = Len(coefficients(CurrentExp))
    /\ a_lc' = IF part = "a" THEN sum ELSE a_lc
    /\ b_lc' = IF part = "b" THEN sum ELSE b_lc
    /\ c_lc' = IF part = "c" THEN sum ELSE c_lc
    /\ IF part = "c"
       THEN pc' = "enforce" /\ part' = part
       ELSE pc' = pc /\ part' = (IF part = "a" THEN "b" ELSE "c")
    /\ k' = 0
    /\ sum' = LcZero
    /\ UNCHANGED <<inputVars, witness_map, pass, public_set, i, cs_inputs, cs_aux,
                   cs_constraints, calls, setup_calls, result>>

\* cs.enforce(label, a_lc, b_lc, c_lc); i += 1; back to the loop head.
Enforce ==
    /\ pc = "enforce"
    /\ LET label == EnforceLabel(i)
       IN /\ cs_constraints' = Append(cs_constraints,
                [annotation |-> label, a |-> a_lc, b |-> b_lc, c |-> c_lc])
          /\ calls' = Append(calls,
                [op |-> "enforce", annotation |-> label, ret |-> "Unit",
                 a |-> a_lc, b |-> b_lc, c |-> c_lc])
    /\ i' = i + 1
    /\ LoopHead(i + 1)
    /\ UNCHANGED <<inputVars, witness_map, pass, public_set, a_lc, b_lc, c_lc, cs_inputs,
                   cs_aux, setup_calls>>

\* The tests' second build_circuit(witness_map): the proving pass, on a fresh
\* backend, with the same gadget and public inputs.
NextPass ==
    /\ pc = "done"
    /\ pass = 1
    /\ pass' = 2
    /\ witness_map' \in WitnessMaps(gadget)
    /\ setup_calls' = calls
    /\ pc' = "start"
    /\ public_set' = {}
    /\ i' = 0 /\ part' = "a" /\ k' = 0 /\ sum' = LcZero
    /\ a_lc' = LcZero /\ b_lc' = LcZero /\ c_lc' = LcZero
    /\ cs_inputs' = FreshInputs /\ cs_aux' = <<>> /\ cs_constraints' = <<>>
    /\ calls' = <<>>
    /\ result' = "none"
    /\ UNCHANGED inputVars

Next ==
    \/ SynthesizeEnter
    \/ ConvertTerm
    \/ ConvertReturn
    \/ Enforce
    \/ NextPass

Spec == Init /\ [][Next]_vars

\* The same passes against a backend that may run out of variables.
InitFail ==
    /\ gadget \in Gadgets
    /\ witness_map = empty_map
    /\ public_inputs \in PublicVecs(gadget)
    /\ alloc_limit \in [fallible : {TRUE}, capacity : 0..MaxAllocLimit]
    /\ pass = 1
    /\ pc = "start"
    /\ public_set = {}
    /\ i = 0
    /\ part = "a"
    /\ k = 0
    /\ sum = LcZero
    /\ a_lc = LcZero /\ b_lc = LcZero /\ c_lc = LcZero
    /\ cs_inputs = FreshInputs
    /\ cs_aux = <<>>
    /\ cs_constraints = <<>>
    /\ calls = <<>>
    /\ setup_calls = <<>>
    /\ result = "none"

NextFail ==
    \/ SynthesizeEnter
    \/ ConvertTerm
    \/ ConvertTermPanic
    \/ ConvertReturn
    \/ Enforce
    \/ NextPass

SpecFail == InitFail /\ [][NextFail]_vars

\* ------------------------------------------------- reading the call log
AllocIdx == {j \in DOMAIN calls :
               calls[j].op \in {"alloc", "alloc_input"} /\ calls[j].ret = "Ok"}

EnforceCalls == SelectSeq(calls, LAMBDA call : call.op = "enforce")

AllocatedVars == {calls[j].var : j \in AllocIdx}

\* The wires whose allocation returned var.
WiresOfVar(var) == {calls[j].wire : j \in {x \in AllocIdx : calls[x].var = var}}

PublicWires == Range(public_inputs)

Parts == {"a", "b", "c"}

PartOf(con, p) == IF p = "a" THEN con.a ELSE IF p = "b" THEN con.b ELSE con.c

\* All linear combinations handed to enforce so far.
EnforcedLcs == {PartOf(cs_constraints[n], p) : n \in DOMAIN cs_constraints, p \in Parts}

TypeOK ==
    /\ pass \in {1, 2}
    /\ pc \in {"start", "convert", "enforce", "done", "panicked"}
    /\ result \in {"none", "Ok", "panic"}
    /\ i \in 0..Len(gadget)
    /\ part \in Parts

\* ======================================================================
\* C1
\* ======================================================================
\* The generic relation, evaluated on the gadget and the witness map alone.
GenericValue(w) == IF w \in DOMAIN witness_map THEN witness_map[w] ELSE 0

RECURSIVE GenericSum(_, _)
GenericSum(exp, S) ==
    IF S = {} THEN 0
    ELSE LET w == CHOOSE x \in S : TRUE
         IN (exp[w] * GenericValue(w) + GenericSum(exp, S \ {w})) % Modulus

GenericEval(exp) == GenericSum(exp, DOMAIN exp)

GenericHolds(con) ==
    (GenericEval(con.a) * GenericEval(con.b)) % Modulus = GenericEval(con.c)

GenericSatisfied == \A n \in DOMAIN gadget : GenericHolds(gadget[n])

\* C1: once synthesize has run, the backend's satisfaction check over the
\* recorded values and constraints succeeds if and only if every constraint
\* of the gadget holds under the witness map's values, wires absent from the
\* map counting as zero.
C1_SatisfactionIff == (pc = "done") => (is_satisfied <=> GenericSatisfied)

\* A proving pass over two constraints whose witness map covers every wire,
\* registered constraints satisfied with a non-zero product.
C1_Witness ==
    /\ pc = "done" /\ pass = 2 /\ Len(gadget) = 2
    /\ WiresOf(gadget) \subseteq DOMAIN witness_map
    /\ is_satisfied
    /\ \E n \in DOMAIN cs_constraints :
          EvalLc(cs_constraints[n].c, cs_inputs, cs_aux) # 0

\* ======================================================================
\* C2
\* ======================================================================
\* C2: every allocation of convert_wire is alloc_input (a public variable)
\* exactly when the wire is in the public-input set, and alloc (a private
\* variable) otherwise, whether or not the wire has a witness value.
C2_VisibilityByMembership ==
    \A j \in AllocIdx :
        /\ (calls[j].op = "alloc_input") <=> (calls[j].wire \in PublicWires)
        /\ (calls[j].var.kind = "Input") <=> (calls[j].wire \in PublicWires)
        /\ (calls[j].var.kind = "Aux") <=> (calls[j].wire \notin PublicWires)

\* Public allocations of a wire with a witness value and of a wire without,
\* and a private allocation of a wire with a witness value, in one pass.
C2_Witness ==
    /\ pass = 2
    /\ \E x, y, z \in AllocIdx :
          /\ calls[x].op = "alloc_input" /\ calls[x].wire \in DOMAIN witness_map
          /\ calls[y].op = "alloc_input" /\ calls[y].wire \notin DOMAIN witness_map
          /\ calls[z].op = "alloc" /\ calls[z].wire \in DOMAIN witness_map

\* ======================================================================
\* C3
\* ======================================================================
\* A backend call without the value bound to the variable.
ShapeOf(call) ==
    IF call.op = "enforce" THEN call
    ELSE [op |-> call.op, annotation |-> call.annotation, var |-> call.var]

\* C3: the proving pass issues the same backend calls as the parameter
\* generation pass run with the empty witness map, call by call, up to the
\* values bound to the variables.
C3_SameTopology ==
    (pass = 2) =>
        /\ Len(calls) <= Len(setup_calls)
        /\ \A j \in DOMAIN calls : ShapeOf(calls[j]) = ShapeOf(setup_calls[j])
        /\ (pc = "done") => (Len(calls) = Len(setup_calls))

\* A finished proving pass with public and private wires, whose witness map
\* assigns some wires and not others, with values that differ from pass 1.
C3_Witness ==
    /\ pass = 2 /\ pc = "done"
    /\ calls # setup_calls
    /\ \E j \in AllocIdx : calls[j].op = "alloc_input"
    /\ \E j \in AllocIdx : calls[j].op = "alloc"
    /\ \E w \in WiresOf(gadget) : w \in DOMAIN witness_map
    /\ \E w \in WiresOf(gadget) : w \notin DOMAIN witness_map

\* ======================================================================
\* C4
\* ======================================================================
\* C4: within a pass every wire is allocated once: two allocations never
\* resolve the same wire, so the allocations number the distinct wires.
C4_OneVariablePerWire ==
    /\ \A x, y \in AllocIdx : (calls[x].wire = calls[y].wire) => (x = y)
    /\ Cardinality(AllocIdx) = Cardinality({calls[j].wire : j \in AllocIdx})

\* ======================================================================
\* C5
\* ======================================================================
\* C5: when a backend call has failed, synthesize has returned the
\* synthesis error to its caller.
C5_FailureReturned ==
    (\E j \in DOMAIN calls : calls[j].ret = "Err") => (result = "Err")

\* ======================================================================
\* C8
\* ======================================================================
\* C8: a pass that ended in failure leaves the caller's constraint system
\* without any of the pass's variables and constraints.
C8_NoPartialCommit ==
    (pc = "panicked") => (AllocCount = 0 /\ cs_constraints = <<>>)

\* ======================================================================
\* C6
\* ======================================================================
\* The value the witness map gives a wire, zero when it gives none.
BoundValue(w) == IF w \in DOMAIN witness_map THEN witness_map[w] ELSE 0

\* C6: every allocation for a wire binds the witness map's value for that
\* wire, or zero when the map has none, through a value closure that returns
\* Ok; the backend stores that value; allocations of one wire agree; and a
\* finished pass with the empty witness map has bound zero everywhere and
\* returned Ok.
C6_WitnessOrZero ==
    /\ \A j \in AllocIdx :
          /\ calls[j].value = [ok |-> TRUE, val |-> BoundValue(calls[j].wire)]
          /\ ValueOf(calls[j].var, cs_inputs, cs_aux) = BoundValue(calls[j].wire)
    /\ \A x, y \in AllocIdx :
          (calls[x].wire = calls[y].wire) => (calls[x].value = calls[y].value)
    /\ (pc = "done" /\ witness_map = empty_map) =>
          /\ result = "Ok"
          /\ \A j \in AllocIdx : calls[j].value.val = 0
          /\ \A n \in 2..Len(cs_inputs) : cs_inputs[n] = 0
          /\ \A n \in DOMAIN cs_aux : cs_aux[n] = 0

\* A proving pass that allocated one wire twice with its non-zero witness
\* value and another wire, absent from the witness map, with zero.
C6_Witness ==
    /\ pass = 2
    /\ \E x, y, z \in AllocIdx :
          /\ x # y /\ calls[x].wire = calls[y].wire
          /\ calls[x].wire \in DOMAIN witness_map /\ calls[x].value.val # 0
          /\ calls[z].wire \notin DOMAIN witness_map /\ calls[z].value.val = 0

\* ======================================================================
\* C7
\* ======================================================================
\* The (coefficient, wire) terms of a translated expression.
TermWires(lc) ==
    UNION {{<<lc[j][1], w>> : w \in WiresOfVar(lc[j][2])} : j \in DOMAIN lc}

\* lc is the translation of exp: one term per pair, the pair's coefficient
\* in the backend field on a variable allocated for the pair's wire.
Translates(lc, exp) ==
    /\ Len(lc) = Cardinality(DOMAIN exp)
    /\ \A j \in DOMAIN lc : Cardinality(WiresOfVar(lc[j][2])) = 1
    /\ TermWires(lc) = {<<exp[w] % Modulus, w>> : w \in DOMAIN exp}

\* C7: the constraints registered so far are the first constraints of the
\* list, in order: the k-th enforce call (from 0) carries the label with
\* index k and the translations of the k-th constraint's A, B, C in that
\* argument order; a finished pass has registered one constraint per list
\* element and returned Ok, and for the empty list it has made no call.
C7_OrderedRegistration ==
    /\ Len(cs_constraints) <= Len(gadget)
    /\ Len(EnforceCalls) = Len(cs_constraints)
    /\ \A n \in DOMAIN cs_constraints :
          /\ cs_constraints[n].annotation = <<"generated by r1cs-bellman at ", n - 1>>
          /\ EnforceCalls[n].annotation = cs_constraints[n].annotation
          /\ EnforceCalls[n].a = cs_constraints[n].a
          /\ EnforceCalls[n].b = cs_constraints[n].b
          /\ EnforceCalls[n].c = cs_constraints[n].c
          /\ Translates(cs_constraints[n].a, gadget[n].a)
          /\ Translates(cs_constraints[n].b, gadget[n].b)
          /\ Translates(cs_constraints[n].c, gadget[n].c)
    /\ (pc = "done") =>
          /\ result = "Ok"
          /\ Len(cs_constraints) = Len(gadget)
          /\ (gadget = <<>>) => (calls = <<>> /\ AllocCount = 0)

\* A finished pass over two different constraints.
C7_Witness ==
    /\ pc = "done" /\ pass = 2
    /\ Len(gadget) = 2 /\ gadget[1] # gadget[2]
    /\ Len(cs_constraints) = 2

\* ======================================================================
\* C9
\* ======================================================================
\* The (wire, coefficient) pairs convert_lc has visited so far in the pass.
PairsVisited ==
    TotalTerms(SubSeq(gadget, 1, i))
      + (IF pc = "convert"
         THEN (IF part = "a" THEN 0
               ELSE IF part = "b" THEN Cardinality(DOMAIN gadget[i + 1].a)
               ELSE Cardinality(DOMAIN gadget[i + 1].a)
                      + Cardinality(DOMAIN gadget[i + 1].b)) + k
         ELSE IF pc = "enforce" THEN TermsOf(gadget[i + 1])
         ELSE 0)

\* The places of the registered constraints where var occurs.
Occurrences(var) ==
    {pos \in (DOMAIN cs_constraints) \X Parts \X (1..AllocCount) :
        /\ pos[3] \in DOMAIN PartOf(cs_constraints[pos[1]], pos[2])
        /\ PartOf(cs_constraints[pos[1]], pos[2])[pos[3]][2] = var}

\* C9: there is exactly one fresh allocation per visited (wire, coefficient)
\* pair; after a pass the allocations number the pairs of all A, B, C
\* expressions, every allocated variable occurs in exactly one term of one
\* registered constraint, and an empty expression has become the zero
\* linear combination.
C9_OneAllocationPerPair ==
    /\ Cardinality(AllocIdx) = PairsVisited
    /\ AllocCount = PairsVisited
    /\ \A x, y \in AllocIdx :
          (x # y) => (calls[x].var # calls[y].var /\ calls[x].at # calls[y].at)
    /\ \A n \in DOMAIN cs_constraints : \A p \in Parts :
          /\ Len(PartOf(cs_constraints[n], p)) = Cardinality(DOMAIN PartOf(gadget[n], p))
          /\ (PartOf(gadget[n], p) = NoTerms) => (PartOf(cs_constraints[n], p) = LcZero)
    /\ (pc = "done") =>
          /\ AllocCount = TotalTerms(gadget)
          /\ \A v \in AllocatedVars : Cardinality(Occurrences(v)) = 1

\* A finished proving pass that allocated one wire more than once and
\* translated an empty expression.
C9_Witness ==
    /\ pc = "done" /\ pass = 2
    /\ \E x, y \in AllocIdx : x # y /\ calls[x].wire = calls[y].wire
    /\ \E n \in DOMAIN gadget : gadget[n].c = NoTerms /\ cs_constraints[n].c = LcZero
    /\ AllocCount > Cardinality(WiresOf(gadget))

\* ======================================================================
\* C10
\* ======================================================================
\* C10: every term of every linear combination handed to enforce, and of
\* the running sum, refers to a variable allocated in this pass and never to
\* the backend's ONE; wire 0 is allocated like any other wire, public or
\* private by membership, bound to its witness value or to zero.
C10_NoSpecialWire ==
    /\ \A lc \in EnforcedLcs \cup {sum, a_lc, b_lc, c_lc} : \A j \in DOMAIN lc :
          /\ lc[j][2] # CsOne
          /\ lc[j][2] \in AllocatedVars
    /\ \A j \in AllocIdx :
          (calls[j].wire = 0) =>
             /\ calls[j].var # CsOne
             /\ calls[j].op = (IF 0 \in PublicWires THEN "alloc_input" ELSE "alloc")
             /\ calls[j].value.val = (IF 0 \in DOMAIN witness_map
                                      THEN witness_map[0] ELSE 0)

\* A finished proving pass with a registered term on wire 0, a private wire
\* with no witness value, bound to zero.
C10_Witness ==
    /\ pc = "done" /\ pass = 2
    /\ 0 \notin DOMAIN witness_map /\ 0 \notin PublicWires
    /\ \E lc \in EnforcedLcs : \E j \in DOMAIN lc :
          /\ 0 \in WiresOfVar(lc[j][2])
          /\ lc[j][2].kind = "Aux"
          /\ ValueOf(lc[j][2], cs_inputs, cs_aux) = 0

====
